---- MODULE Spec2Model ----
(***************************************************************************)
(* Model of cryptoki/src/mechanism/hkdf.rs: HkdfSalt, HkdfParams::new      *)
(* (the Builder) and HkdfParams::extract / expand / salt / info (the       *)
(* Reader), together with the caller-owned byte buffers the record points  *)
(* into and the borrow that the signature of `new` places on them.         *)
(*                                                                         *)
(* A pointer is the address of a buffer: the index of a heap slot, 0 for   *)
(* the null pointer.  A slice &[u8] is a pair (ptr, len); its bytes live   *)
(* in the heap.  CK_ULONG is CkUlongBits wide and usize is one bit wider,  *)
(* the situation of a target where CK_ULONG is narrower than usize, at a   *)
(* width small enough to enumerate.                                        *)
(***************************************************************************)
EXTENDS Integers, Sequences, FiniteSets, TLC

VARIABLES heap, rec, origin, args, borrowed, freed, out, pc, msg

vars == <<heap, rec, origin, args, borrowed, freed, out, pc, msg>>

-----------------------------------------------------------------------------
(* Bounds of the model *)

CkUlongBits == 3

MaxBufs == 2

-----------------------------------------------------------------------------
(* Program constants *)

CKF_HKDF_SALT_NULL == 1

CKF_HKDF_SALT_DATA == 2

CKF_HKDF_SALT_KEY == 4

NullPtr == 0

CK_ULONG_MAX == 2^CkUlongBits - 1

USIZE_MAX == 2^(CkUlongBits + 1) - 1

-----------------------------------------------------------------------------
(* Input sets *)

Bufs == 1..MaxBufs

\* lengths of the caller's buffers: empty, one byte, the largest length that
\* fits CK_ULONG, and one byte more
Lens == {0, 1, CK_ULONG_MAX, CK_ULONG_MAX + 1}

Mechs == {592, 608}

Handles == {0, 1, 5}

SaltTypes == {CKF_HKDF_SALT_NULL, CKF_HKDF_SALT_DATA, CKF_HKDF_SALT_KEY, 0, 3}

\* the contents of the buffer of len bytes at address b: bytes that differ
\* from one position to the next and from one buffer to the other
Bytes(len, b) == [i \in 1..len |-> (83 * b + i) % 256]

-----------------------------------------------------------------------------
(* enum HkdfSalt<'a> { Null, Data(&'a [u8]), Key(ObjectHandle) } *)

SaltNull == [tag |-> "Null", ptr |-> NullPtr, len |-> 0, handle |-> 0]

SaltData(p, n) == [tag |-> "Data", ptr |-> p, len |-> n, handle |-> 0]

SaltKey(h) == [tag |-> "Key", ptr |-> NullPtr, len |-> 0, handle |-> h]

\* the outcome of salt() on a discriminant none of the arms matches
SaltUnreachable == [tag |-> "Unreachable", ptr |-> NullPtr, len |-> 0, handle |-> 0]

Slice(p, n) == [ptr |-> p, len |-> n]

-----------------------------------------------------------------------------
(* HkdfParams::new *)

\* a narrowing that wraps, as `len as CK_ULONG` would
TryIntoWrapping(n) == [ok |-> TRUE, val |-> n % (CK_ULONG_MAX + 1)]

\* a narrowing that rejects the largest representable value
TryIntoOffByOne(n) == IF n < CK_ULONG_MAX THEN [ok |-> TRUE, val |-> n]
                      ELSE [ok |-> FALSE, val |-> 0]

\* usize -> CK_ULONG, checked: usize::try_into::<CK_ULONG>()

TryInto(n) == IF n <= CK_ULONG_MAX THEN [ok |-> TRUE, val |-> n]
              ELSE [ok |-> FALSE, val |-> 0]

\* a flag encoding with all bits set for true
BoolAsU8AllOnes(b) == IF b THEN 255 ELSE 0

\* bool as u8
BoolAsU8(b) == IF b THEN 1 ELSE 0

\* a discriminant with the Data and Key arms exchanged
UlSaltTypeSwapped(salt) ==
    CASE salt.tag = "Null" -> CKF_HKDF_SALT_NULL
      [] salt.tag = "Data" -> CKF_HKDF_SALT_KEY
      [] salt.tag = "Key" -> CKF_HKDF_SALT_DATA

UlSaltType(salt) ==
    CASE salt.tag = "Null" -> CKF_HKDF_SALT_NULL
      [] salt.tag = "Data" -> CKF_HKDF_SALT_DATA
      [] salt.tag = "Key" -> CKF_HKDF_SALT_KEY

\* a salt pointer that is null for an empty slice
PSaltEmptyNull(salt) == IF salt.tag = "Data" /\ salt.len > 0 THEN salt.ptr ELSE NullPtr

PSalt(salt) == IF salt.tag = "Data" THEN salt.ptr ELSE NullPtr

UlSaltLen(salt) == IF salt.tag = "Data" THEN TryInto(salt.len)
                   ELSE [ok |-> TRUE, val |-> 0]

HSaltKey(salt) == IF salt.tag = "Key" THEN salt.handle ELSE 0

\* an info pointer that is null for an empty slice
PInfoEmptyNull(info) == IF info.len > 0 THEN info.ptr ELSE NullPtr

PInfo(info) == info.ptr

UlInfoLen(info) == TryInto(info.len)

ZeroParams ==
    [bExtract |-> 0, bExpand |-> 0, prfHashMechanism |-> 0, ulSaltType |-> 0,
     pSalt |-> NullPtr, ulSaltLen |-> 0, hSaltKey |-> 0, pInfo |-> NullPtr,
     ulInfoLen |-> 0]

Panic(m) == [tag |-> "Panic", inner |-> ZeroParams, msg |-> m]

new(extract, expand, prf_hash_mechanism, salt, info) ==
    LET sl == UlSaltLen(salt)
        il == UlInfoLen(info)
    IN  IF ~sl.ok THEN Panic("salt length does not fit in CK_ULONG")
        ELSE IF ~il.ok THEN Panic("info length does not fit in CK_ULONG")
        ELSE [tag |-> "Ok",
              inner |-> [bExtract |-> BoolAsU8(extract),
                         bExpand |-> BoolAsU8(expand),
                         prfHashMechanism |-> prf_hash_mechanism,
                         ulSaltType |-> UlSaltType(salt),
                         pSalt |-> PSalt(salt),
                         ulSaltLen |-> sl.val,
                         hSaltKey |-> HSaltKey(salt),
                         pInfo |-> PInfo(info),
                         ulInfoLen |-> il.val],
              msg |-> ""]

-----------------------------------------------------------------------------
(* The Reader *)

extract(r) == r.bExtract # 0

expand(r) == r.bExpand # 0

\* a reader that takes an unknown discriminant for "no salt"
saltDefaultNull(r) ==
    CASE r.ulSaltType = CKF_HKDF_SALT_DATA -> SaltData(r.pSalt, r.ulSaltLen)
      [] r.ulSaltType = CKF_HKDF_SALT_KEY -> SaltKey(r.hSaltKey)
      [] OTHER -> SaltNull

\* a reader that looks at the salt-key handle before the discriminant
saltHandleFirst(r) ==
    CASE r.hSaltKey # 0 -> SaltKey(r.hSaltKey)
      [] r.ulSaltType = CKF_HKDF_SALT_NULL -> SaltNull
      [] r.ulSaltType = CKF_HKDF_SALT_DATA -> SaltData(r.pSalt, r.ulSaltLen)
      [] r.ulSaltType = CKF_HKDF_SALT_KEY -> SaltKey(r.hSaltKey)
      [] OTHER -> SaltUnreachable

salt(r) ==
    CASE r.ulSaltType = CKF_HKDF_SALT_NULL -> SaltNull
      [] r.ulSaltType = CKF_HKDF_SALT_DATA -> SaltData(r.pSalt, r.ulSaltLen)
      [] r.ulSaltType = CKF_HKDF_SALT_KEY -> SaltKey(r.hSaltKey)
      [] OTHER -> SaltUnreachable

\* an info view cut with the salt's length
infoSaltLen(r) == Slice(r.pInfo, r.ulSaltLen)

info(r) == Slice(r.pInfo, r.ulInfoLen)

-----------------------------------------------------------------------------
(* The caller's memory *)

FreeBuf == [live |-> FALSE, bytes |-> <<>>]

\* what reading a slice yields: the bytes of its buffer, or, when the buffer
\* was released while the record pointed at it or is shorter than the
\* slice, any outcome of the undefined read: the bytes now at the address,
\* some other bytes, or a fault
Fill(n, g) == [i \in 1..n |-> g]

InBounds(s) == heap[s.ptr].live /\ Len(heap[s.ptr].bytes) >= s.len

Deref(s) ==
    IF s.len = 0 THEN {[tag |-> "Bytes", bytes |-> <<>>]}
    ELSE IF s.ptr \in freed \/ ~InBounds(s)
    THEN {[tag |-> "Bytes", bytes |-> Fill(s.len, g)] : g \in {0, 255}}
           \cup {[tag |-> "Fault", bytes |-> <<>>]}
           \cup (IF InBounds(s)
                 THEN {[tag |-> "Bytes", bytes |-> SubSeq(heap[s.ptr].bytes, 1, s.len)]}
                 ELSE {})
    ELSE {[tag |-> "Bytes", bytes |-> SubSeq(heap[s.ptr].bytes, 1, s.len)]}

NoArgs ==
    [extract |-> FALSE, expand |-> FALSE, prf |-> 0, salt |-> SaltNull,
     info |-> Slice(NullPtr, 0), saltBytes |-> <<>>, infoBytes |-> <<>>]

NoOut ==
    [valid |-> FALSE, extract |-> FALSE, expand |-> FALSE, salt |-> SaltNull,
     saltBytes |-> [tag |-> "Bytes", bytes |-> <<>>], info |-> Slice(NullPtr, 0),
     infoBytes |-> [tag |-> "Bytes", bytes |-> <<>>]]

Init ==
    /\ heap = [b \in Bufs |-> FreeBuf]
    /\ rec = ZeroParams
    /\ origin = "none"
    /\ args = NoArgs
    /\ borrowed = {}
    /\ freed = {}
    /\ out = NoOut
    /\ pc = "run"
    /\ msg = ""

\* the caller allocates a buffer (a Vec<u8>) and fills it
Alloc(b, len) ==
    /\ pc = "run"
    /\ ~heap[b].live
    /\ len <= USIZE_MAX
    /\ heap' = [heap EXCEPT ![b] = [live |-> TRUE, bytes |-> Bytes(len, b)]]
    /\ UNCHANGED <<rec, origin, args, borrowed, freed, out, pc, msg>>

\* the caller drops a buffer; the borrow checker allows it only when no live
\* value of lifetime 'a borrows the buffer
Release(b) ==
    /\ pc = "run"
    /\ heap[b].live
    /\ b \notin borrowed
    /\ heap' = [heap EXCEPT ![b] = FreeBuf]
    /\ freed' = IF origin # "none" /\ b \in {rec.pSalt, rec.pInfo}
                THEN freed \cup {b} ELSE freed
    /\ UNCHANGED <<rec, origin, args, borrowed, out, pc, msg>>

SaltInputs ==
    {SaltNull}
      \cup {SaltData(b, Len(heap[b].bytes)) : b \in {x \in Bufs : heap[x].live}}
      \cup {SaltKey(h) : h \in Handles}

\* the lifetime 'a of the result of new(): `info: &'a [u8]` carries it,
\* `salt: HkdfSalt` has an elided lifetime of its own
BorrowOfNew(s, i) == {i.ptr}

BuildWith(e, x, prf, s, ib) ==
    /\ heap[ib].live
    /\ LET i == Slice(ib, Len(heap[ib].bytes))
           r == new(e, x, prf, s, i)
       IN  /\ args' = [extract |-> e, expand |-> x, prf |-> prf, salt |-> s,
                       info |-> i,
                       saltBytes |-> IF s.tag = "Data" THEN heap[s.ptr].bytes ELSE <<>>,
                       infoBytes |-> heap[ib].bytes]
           /\ IF r.tag = "Ok"
              THEN /\ rec' = r.inner
                   /\ origin' = "new"
                   /\ borrowed' = BorrowOfNew(s, i)
                   /\ UNCHANGED <<pc, msg>>
              ELSE /\ pc' = "panic"
                   /\ msg' = r.msg
                   /\ UNCHANGED <<rec, origin, borrowed>>
    /\ UNCHANGED <<heap, freed, out>>

\* the caller calls new() on slices of its live buffers
Build ==
    /\ pc = "run"
    /\ origin = "none"
    /\ \E e \in BOOLEAN, x \in BOOLEAN, prf \in Mechs, s \in SaltInputs, ib \in Bufs :
           BuildWith(e, x, prf, s, ib)

\* the pointers a foreign record may hold: null or a live buffer
PtrLens(p) == IF p = NullPtr THEN {0} ELSE {0, Len(heap[p].bytes)}

\* the live buffers whose length CK_ULONG can hold
ValidPtrs == {b \in Bufs : heap[b].live /\ Len(heap[b].bytes) <= CK_ULONG_MAX}

ForeignFlags == {0, 255}

ForeignHandles == {0, 5}

ForeignWith(r) ==
    /\ rec' = r
    /\ origin' = "foreign"
    /\ borrowed' = {r.pSalt, r.pInfo} \ {NullPtr}
    /\ UNCHANGED <<heap, args, freed, out, pc, msg>>

ForeignRecords ==
    UNION {UNION {{[bExtract |-> fe, bExpand |-> fx, prfHashMechanism |-> 592,
                    ulSaltType |-> t, pSalt |-> ps, ulSaltLen |-> sl,
                    hSaltKey |-> h, pInfo |-> pi,
                    ulInfoLen |-> Len(heap[pi].bytes)] :
                      fe \in ForeignFlags, fx \in ForeignFlags, t \in SaltTypes,
                      sl \in PtrLens(ps), h \in ForeignHandles} :
                  ps \in IF pi \in ValidPtrs THEN {NullPtr} \cup ValidPtrs ELSE {}} :
           pi \in ValidPtrs}

\* a record that did not come from new(): filled in behind the wrapper
Foreign ==
    /\ pc = "run"
    /\ origin = "none"
    /\ \E r \in ForeignRecords : ForeignWith(r)

\* the caller reads the record through the four accessors and the bytes of
\* the two views
Read ==
    /\ pc = "run"
    /\ origin # "none"
    /\ ~out.valid
    /\ LET s == salt(rec)
           i == info(rec)
       IN  IF s.tag = "Unreachable"
           THEN /\ pc' = "panic"
                /\ msg' = "internal error: entered unreachable code"
                /\ UNCHANGED out
           ELSE /\ \E sb \in Deref(Slice(s.ptr, s.len)), ib \in Deref(i) :
                      out' = [valid |-> TRUE, extract |-> extract(rec),
                              expand |-> expand(rec), salt |-> s, saltBytes |-> sb,
                              info |-> i, infoBytes |-> ib]
                /\ UNCHANGED <<pc, msg>>
    /\ UNCHANGED <<heap, rec, origin, args, borrowed, freed>>

\* the record and the views read from it go out of scope
Drop ==
    /\ pc = "run"
    /\ origin # "none"
    /\ rec' = ZeroParams
    /\ origin' = "none"
    /\ args' = NoArgs
    /\ borrowed' = {}
    /\ freed' = {}
    /\ out' = NoOut
    /\ UNCHANGED <<heap, pc, msg>>

Next ==
    \/ \E b \in Bufs, len \in Lens : Alloc(b, len)
    \/ \E b \in Bufs : Release(b)
    \/ Build
    \/ Foreign
    \/ Read
    \/ Drop

Spec == Init /\ [][Next]_vars

-----------------------------------------------------------------------------
(* Properties *)

\* new() has been called by the last Build (its arguments are kept in args)
Attempted == args.info.ptr # NullPtr

Built == origin = "new"

ValidSaltTypes == {CKF_HKDF_SALT_NULL, CKF_HKDF_SALT_DATA, CKF_HKDF_SALT_KEY}

UnreachableMsg == "internal error: entered unreachable code"

PanicMsgs == {"salt length does not fit in CK_ULONG",
              "info length does not fit in CK_ULONG"}

Overlong == Attempted /\ (args.salt.len > CK_ULONG_MAX \/ args.info.len > CK_ULONG_MAX)

C2_RecordNeverOutlivesBuffers ==
    (Built /\ args.salt.tag = "Data") =>
        /\ freed = {}
        /\ heap[rec.pSalt].live
        /\ heap[rec.pInfo].live

\* C3 as stated: a salt or info length that CK_ULONG cannot hold comes back
\* to the caller of new() as an error value, the caller running on.
C3_OverflowReturnedAsError ==
    Overlong => (pc = "run" /\ origin = "none")

\* C3 as amended: a salt or info length that CK_ULONG cannot hold makes
\* new() panic with the message of its expect(); no record is produced, and
\* a record that is produced holds the exact lengths, never wrapped ones.
C3_OverflowPanics ==
    /\ Overlong => (pc = "panic" /\ msg \in PanicMsgs /\ origin = "none")
    /\ Built => /\ rec.ulInfoLen = Len(args.infoBytes)
                /\ rec.ulSaltLen = Len(args.saltBytes)

C3_Witness ==
    /\ Overlong
    /\ pc = "panic"
    /\ args.salt.tag = "Data"
    /\ args.salt.len = CK_ULONG_MAX + 1
    /\ msg = "salt length does not fit in CK_ULONG"

ShapeNone(r) == r.pSalt = NullPtr /\ r.ulSaltLen = 0 /\ r.hSaltKey = 0

ShapeData(r) == r.pSalt # NullPtr /\ r.hSaltKey = 0

ShapeKey(r) == r.pSalt = NullPtr /\ r.ulSaltLen = 0 /\ r.hSaltKey # 0

ExactlyOneShape(r) ==
    \/ r.ulSaltType = CKF_HKDF_SALT_NULL /\ ShapeNone(r) /\ ~ShapeData(r) /\ ~ShapeKey(r)
    \/ r.ulSaltType = CKF_HKDF_SALT_DATA /\ ShapeData(r) /\ ~ShapeNone(r) /\ ~ShapeKey(r)
    \/ r.ulSaltType = CKF_HKDF_SALT_KEY /\ ShapeKey(r) /\ ~ShapeNone(r) /\ ~ShapeData(r)

\* C4 as stated: for every salt input, a handle of 0 included, exactly one
\* of the three shapes holds of the record built and it is the one that
\* matches ulSaltType.
C4_ExactlyOneShape ==
    Built => ExactlyOneShape(rec)

\* C4 as amended: for every salt input other than Key of handle 0, exactly
\* one of the three shapes holds and it is the one that matches ulSaltType;
\* for Key of handle 0 the record has ulSaltType = CKF_HKDF_SALT_KEY with
\* pSalt null, ulSaltLen = 0 and hSaltKey = 0, the fields of the none shape.
C4_ShapeMatchesDiscriminant ==
    Built =>
        IF args.salt.tag = "Key" /\ args.salt.handle = 0
        THEN rec.ulSaltType = CKF_HKDF_SALT_KEY /\ ShapeNone(rec)
        ELSE ExactlyOneShape(rec)

C4_Witness ==
    /\ Built
    /\ args.salt.tag = "Key" /\ args.salt.handle = 5
    /\ rec.ulSaltType = CKF_HKDF_SALT_KEY /\ rec.hSaltKey = 5

\* C5: reading the salt of a record whose ulSaltType is none of the three
\* constants ends in the unreachable!() panic and yields no salt variant;
\* a record built by new() never takes that path.
C5_InvalidDiscriminantFatal ==
    /\ (origin # "none" /\ rec.ulSaltType \notin ValidSaltTypes) =>
           (~out.valid /\ salt(rec).tag \notin {"Null", "Data", "Key"})
    /\ (pc = "panic" /\ msg = UnreachableMsg) =>
           (origin = "foreign" /\ rec.ulSaltType \notin ValidSaltTypes)
    /\ Built => (rec.ulSaltType \in ValidSaltTypes /\ pc = "run")

C5_Witness ==
    /\ origin = "foreign"
    /\ rec.ulSaltType = 3
    /\ pc = "panic"
    /\ msg = UnreachableMsg

\* C6: a record built with salt = Data(empty) has ulSaltType =
\* CKF_HKDF_SALT_DATA, ulSaltLen = 0 and a non-null pSalt; the record built
\* from the same arguments with salt = Null has another discriminant, and
\* the two read back as Data(empty) and Null.
C6_ZeroLengthDistinct ==
    (Built /\ args.salt.tag = "Data" /\ args.salt.len = 0) =>
        LET n == new(args.extract, args.expand, args.prf, SaltNull, args.info)
        IN  /\ rec.ulSaltType = CKF_HKDF_SALT_DATA
            /\ rec.ulSaltLen = 0
            /\ rec.pSalt # NullPtr
            /\ n.tag = "Ok"
            /\ n.inner.ulSaltType = CKF_HKDF_SALT_NULL
            /\ n.inner.ulSaltType # rec.ulSaltType
            /\ salt(n.inner) = SaltNull
            /\ salt(rec) = SaltData(args.salt.ptr, 0)
            /\ out.valid => (out.salt.tag = "Data" /\ out.salt.len = 0
                             /\ out.saltBytes.bytes = <<>>)

C6_Witness ==
    /\ Built /\ out.valid
    /\ args.salt.tag = "Data" /\ args.salt.len = 0
    /\ out.salt.tag = "Data"

\* C7: every record built by new() has a non-null pInfo and ulInfoLen equal
\* to the number of bytes of info, an empty info included.
C7_InfoNonNull ==
    Built => (rec.pInfo # NullPtr /\ rec.ulInfoLen = Len(args.infoBytes))

C7_Witness ==
    /\ Built
    /\ args.infoBytes = <<>>
    /\ rec.pInfo # NullPtr /\ rec.ulInfoLen = 0
    /\ args.salt.tag = "Data" /\ args.salt.len = CK_ULONG_MAX

\* C8: a salt or info of exactly CK_ULONG_MAX bytes is accepted and its
\* length stored as it is; one of CK_ULONG_MAX + 1 bytes makes new() fail
\* (the panic of its expect()) and no record with a wrapped length exists.
C8_OverflowBoundary ==
    Attempted =>
        /\ (args.salt.len <= CK_ULONG_MAX /\ args.info.len <= CK_ULONG_MAX) =>
               /\ Built /\ pc = "run"
               /\ rec.ulInfoLen = args.info.len
               /\ args.salt.tag = "Data" => rec.ulSaltLen = args.salt.len
        /\ (args.salt.len = CK_ULONG_MAX + 1 \/ args.info.len = CK_ULONG_MAX + 1) =>
               (~Built /\ pc = "panic" /\ msg \in PanicMsgs)

C8_Witness ==
    /\ Built
    /\ args.salt.tag = "Data"
    /\ rec.ulSaltLen = CK_ULONG_MAX
    /\ rec.ulInfoLen = CK_ULONG_MAX

\* records with the discriminant t and every other field from a small set
RecordSpace(t) ==
    [bExtract : {0, 255}, bExpand : {1}, prfHashMechanism : {608},
     ulSaltType : {t}, pSalt : {NullPtr, 1, 2}, ulSaltLen : {0, CK_ULONG_MAX},
     hSaltKey : {0, 5}, pInfo : {1, 2}, ulInfoLen : {0, CK_ULONG_MAX}]

\* the two records agree on the fields their discriminant selects
SaltAgree(r1, r2) ==
    /\ r1.ulSaltType = r2.ulSaltType
    /\ r1.ulSaltType = CKF_HKDF_SALT_DATA =>
           (r1.pSalt = r2.pSalt /\ r1.ulSaltLen = r2.ulSaltLen)
    /\ r1.ulSaltType = CKF_HKDF_SALT_KEY => r1.hSaltKey = r2.hSaltKey

\* C9: salt() dispatches on ulSaltType alone: a record that agrees with the
\* current one on ulSaltType and on the fields that variant selects gives
\* the same salt() whatever its other fields hold; info() is the view of
\* ulInfoLen bytes at pInfo whatever the salt fields hold.
C9_DispatchOnDiscriminant ==
    origin # "none" =>
        \A r2 \in RecordSpace(rec.ulSaltType) :
            /\ SaltAgree(rec, r2) => salt(r2) = salt(rec)
            /\ info(r2) = Slice(r2.pInfo, r2.ulInfoLen)
            /\ (r2.pInfo = rec.pInfo /\ r2.ulInfoLen = rec.ulInfoLen) => info(r2) = info(rec)

C9_Witness ==
    /\ origin = "foreign"
    /\ rec.ulSaltType = CKF_HKDF_SALT_NULL
    /\ rec.pSalt # NullPtr /\ rec.hSaltKey = 5
    /\ out.valid /\ out.salt = SaltNull

\* C10: new() stores each flag as 1 for true and 0 for false; extract()
\* and expand() are true for every byte 1..255 and false for 0, each
\* depending on its own byte only.
C10_FlagEncoding ==
    /\ Built =>
           /\ rec.bExtract = (IF args.extract THEN 1 ELSE 0)
           /\ rec.bExpand = (IF args.expand THEN 1 ELSE 0)
    /\ origin # "none" =>
           /\ \A b \in 0..255 :
                  /\ extract([rec EXCEPT !.bExtract = b]) = (b # 0)
                  /\ expand([rec EXCEPT !.bExpand = b]) = (b # 0)
           /\ \A c \in {0, 1, 255} :
                  /\ extract([rec EXCEPT !.bExpand = c]) = extract(rec)
                  /\ expand([rec EXCEPT !.bExtract = c]) = expand(rec)
    /\ out.valid =>
           /\ out.extract = (rec.bExtract # 0)
           /\ out.expand = (rec.bExpand # 0)

C10_Witness ==
    /\ origin = "foreign"
    /\ rec.bExtract = 255 /\ rec.bExpand = 0
    /\ out.valid /\ out.extract /\ ~out.expand

====
